---------------------------- MODULE Spec2Model ----------------------------
(***************************************************************************)
(* A model of scripts/fetch_news.py (AI Daily Digest collector).           *)
(*                                                                         *)
(* The script is one sequential batch run: collect -> filter -> dedup ->   *)
(* two-stage LLM generation -> write digest and index.  The model has one  *)
(* specification per part of the pipeline, all over the same variables:    *)
(*                                                                         *)
(*   SpecNormalize  normalize_title / title_fingerprint on bounded titles  *)
(*   SpecDedup      deduplicate_articles on bounded article lists          *)
(*   SpecCollect    the four fetchers, with failing endpoints              *)
(*   SpecLlm        call_llm, one HTTP attempt per step                    *)
(*   SpecGenerate   generate_digest: selection, batches, conversion        *)
(*   SpecSelect     generate_digest: Stage 1 alone, on bounded answers     *)
(*   SpecRead       generate_digest: one Stage-2 answer, read as text      *)
(*   SpecHistory    load_historical_titles on bounded data directories     *)
(*   Spec           main(): a sequence of runs against one data directory  *)
(*   FairSpec       Spec, with the skip check eventually taken             *)
(*                                                                         *)
(* Text is modelled as a sequence of one-character strings, so that        *)
(* lower(), strip() and the two regular expressions of normalize_title     *)
(* are computed character by character.                                    *)
(***************************************************************************)
EXTENDS Integers, Sequences, FiniteSets, TLC

VARIABLES
    \* ---- normalize_title / title_fingerprint ----
    title,          \* the input title t
    other,          \* a second input title u
    npc,            \* "input" | "normalized" | "renormalized" | "fingerprinted"
    norm1,          \* normalize_title(title)
    norm2,          \* normalize_title(norm1)
    fpA,            \* title_fingerprint(title)
    fpB,            \* title_fingerprint(other)
    \* ---- deduplicate_articles ----
    articles,       \* the input list of articles
    historical_fps, \* the historical fingerprint set
    dpc,            \* "idle" | "input" | "done"
    result,         \* the list deduplicate_articles returns
    \* ---- main(): the environment and the data directory ----
    pc,             \* where the run is: "idle" | "ready" | "collect" | "deduped" |
                    \*   "call" | "generated" | "assembled" | "written" | "exited"
    runs,           \* the number of runs started so far
    target_date,    \* TARGET_DATE of the run (a day number)
    api_key,        \* whether OPENAI_API_KEY is set for the run
    after_dedup_count, \* len(ai_articles) after deduplicate_articles
    call,           \* which call_llm of generate_digest: 1 (stage 1), 2, 3 (batches)
    llm_pc,         \* call_llm: "none" | "enter" | "loop" | "returned" | "raised"
    attempt,        \* call_llm's loop variable: attempts made in this call
    log,            \* the outcome of each attempt of this call, in order
    requests,       \* HTTP requests sent to the LLM endpoint in this run
    items,          \* len(all_items_raw)
    exit_code,      \* the process exit status, -1 while running
    skip_marker,    \* whether SKIP_UPDATE=true was printed
    digests,        \* DATA_DIR/<date>.json: the dates that have a file -> content
    index,          \* DATA_DIR/index.json: [exists, dates, latest]
    digests0,       \* digests when the run started
    index0,         \* index when the run started
    prev_success,   \* the target date of the last successful run before this
                    \*   one, 0 if there was none (a history variable)
    \* ---- step 1 of main(): the four fetchers ----
    cpc,            \* "idle" | "newsletters" | "supplementary" | "hn" | "reddit" |
                    \*   "combine" | "done" | "aborted" (an exception left a fetcher)
    src_i,          \* the fetcher's loop: index of the source / query / subreddit
    url_i,          \* fetch_newsletter_feeds: index of the feed URL of the source
    seen_ids,       \* fetch_hacker_news: seen_ids
    newsletter_articles,
    supplementary_articles,
    hn_articles,
    reddit_articles,
    all_articles,   \* newsletter + hn + reddit + supplementary
    fetch_status,   \* per endpoint: "unfetched" | "ok" | "failed" (a history variable)
    \* ---- generate_digest ----
    gpc,            \* "idle" | "stage1" | "stage2" | "convert" | "returned" | "raised"
    pool_n,         \* len(articles): the articles are numbered 1 .. pool_n
    stage1_response, \* what the Stage-1 answer holds (see Stage1Answer)
    gen_exc,        \* the exception that left generate_digest, or "none"
    selected_indices, \* the Stage-1 selection, after the clamp
    batches,        \* <<batch1, batch2>>, each a list of article numbers
    batch_num,      \* the batch the Stage-2 loop is at
    all_items_raw,  \* the items parsed from the Stage-2 answers
    news_items,     \* the list generate_digest returns
    \* ---- generate_digest: reading one Stage-2 answer ----
    ppc,            \* "idle" | "answer" | "read"
    raw,            \* the answer's text, a sequence of characters
    batch_items,    \* what json.loads or the recovery reads from it
    sent,           \* the items the answer was to hold and where it was cut
    \* ---- load_historical_titles ----
    hpc,            \* "idle" | "loading" | "loaded"
    data_dir,       \* the digest files of DATA_DIR, by age in days
    day_i,          \* the loop's i: the file of today - i days is next
    fingerprints    \* the set being built

normVars == <<title, other, npc, norm1, norm2, fpA, fpB>>

dedupVars == <<articles, historical_fps, dpc, result>>

envVars == <<target_date, api_key>>

llmVars == <<call, llm_pc, attempt, log, requests>>

storeVars == <<digests, index>>

runVars ==
    <<pc, runs, envVars, after_dedup_count, llmVars, items, exit_code,
      skip_marker, storeVars, digests0, index0, prev_success>>

collectVars ==
    <<cpc, src_i, url_i, seen_ids, newsletter_articles, supplementary_articles,
      hn_articles, reddit_articles, all_articles, fetch_status>>

genVars ==
    <<gpc, pool_n, stage1_response, gen_exc, selected_indices, batches, batch_num,
      all_items_raw, news_items>>

readVars == <<ppc, raw, batch_items, sent>>

histVars == <<hpc, data_dir, day_i, fingerprints>>

vars ==
    <<normVars, dedupVars, runVars, collectVars, genVars, readVars, histVars>>

notNormVars == <<dedupVars, runVars, collectVars, genVars, readVars, histVars>>

notDedupVars == <<normVars, runVars, collectVars, genVars, readVars, histVars>>

notRunVars == <<normVars, dedupVars, collectVars, genVars, readVars, histVars>>

notCollectVars == <<normVars, dedupVars, runVars, genVars, readVars, histVars>>

notGenVars == <<normVars, dedupVars, runVars, collectVars, readVars, histVars>>

notReadVars == <<normVars, dedupVars, runVars, collectVars, genVars, histVars>>

notHistVars == <<normVars, dedupVars, runVars, collectVars, genVars, readVars>>

--------------------------------------------------------------------------
(*                              Characters                                 *)

UpperLetters ==
    <<"A", "B", "C", "D", "E", "F", "G", "H", "I", "J", "K", "L", "M",
      "N", "O", "P", "Q", "R", "S", "T", "U", "V", "W", "X", "Y", "Z">>

LowerLetters ==
    <<"a", "b", "c", "d", "e", "f", "g", "h", "i", "j", "k", "l", "m",
      "n", "o", "p", "q", "r", "s", "t", "u", "v", "w", "x", "y", "z">>

Digits ==
    <<"0", "1", "2", "3", "4", "5", "6", "7", "8", "9">>

\* The other characters the model's texts use: whitespace, the underscore
\* (a \w character), and punctuation.
OtherChars ==
    <<" ", "\t", "_", "!", "-", ".", "/", ":", "?">>

AllChars ==
    UpperLetters \o LowerLetters \o Digits \o OtherChars

Range(s) ==
    {s[i] : i \in 1..Len(s)}

CharSet ==
    Range(AllChars)

\* Python's \s / str.strip() whitespace, as far as the model's alphabet goes.
SpaceChars ==
    {" ", "\t"}

\* Python's \w: letters, digits and the underscore.
WordChars ==
    Range(UpperLetters) \cup Range(LowerLetters) \cup Range(Digits) \cup {"_"}

IsSpace(c) ==
    c \in SpaceChars

IsWord(c) ==
    c \in WordChars

\* What is neither \w nor \s: the characters re.sub(r"[^\w\s]", "", t) deletes.
IsPunct(c) ==
    ~IsWord(c) /\ ~IsSpace(c)

\* str.lower() on each character of the alphabet.
LowerOf ==
    [c \in CharSet |->
        IF c \in Range(UpperLetters)
        THEN LowerLetters[CHOOSE i \in 1..Len(UpperLetters) : UpperLetters[i] = c]
        ELSE c]

LowerChar(c) ==
    LowerOf[c]

Lower(s) ==
    [i \in 1..Len(s) |-> LowerChar(s[i])]

RECURSIVE LStrip(_)
LStrip(s) ==
    IF s # <<>> /\ IsSpace(Head(s)) THEN LStrip(Tail(s)) ELSE s

RECURSIVE RStrip(_)
RStrip(s) ==
    IF s # <<>> /\ IsSpace(s[Len(s)]) THEN RStrip(SubSeq(s, 1, Len(s) - 1)) ELSE s

\* str.strip(): leading and trailing whitespace removed.
Strip(s) ==
    RStrip(LStrip(s))

KeepWordOrSpace(c) ==
    IsWord(c) \/ IsSpace(c)

\* re.sub(r"[^\w\s]", "", t)
DeleteNonWordNonSpace(s) ==
    SelectSeq(s, KeepWordOrSpace)

\* re.sub(r"\s+", " ", t): every maximal run of whitespace becomes one space.
RECURSIVE CollapseWhitespace(_)
CollapseWhitespace(s) ==
    IF s = <<>> THEN <<>>
    ELSE IF IsSpace(Head(s))
         THEN <<" ">> \o CollapseWhitespace(LStrip(Tail(s)))
         ELSE <<Head(s)>> \o CollapseWhitespace(Tail(s))

--------------------------------------------------------------------------
(*                     normalize_title, title_fingerprint                  *)

\* A variant that keeps the letter case.
normalize_title_keep_case(t) ==
    CollapseWhitespace(DeleteNonWordNonSpace(Strip(t)))

\* t = title.lower().strip(); t = re.sub(r"[^\w\s]", "", t);
\* t = re.sub(r"\s+", " ", t)
normalize_title(t) ==
    CollapseWhitespace(DeleteNonWordNonSpace(Strip(Lower(t))))

\* The size of the digest space of the model.
HashSpace == 7

CodeOf ==
    [c \in CharSet |-> CHOOSE i \in 1..Len(AllChars) : AllChars[i] = c]

CharCode(c) ==
    CodeOf[c]

RECURSIVE ByteSum(_)
ByteSum(s) ==
    IF s = <<>> THEN 0 ELSE CharCode(Head(s)) + 3 * ByteSum(Tail(s))

\* hashlib.md5(s.encode()).hexdigest()[:12].  MD5 is not computed: the
\* digest is a deterministic function of the text into a finite space in
\* which distinct texts may collide, which is all that the fingerprint
\* properties rest on.  The value is tagged so that it is never confused
\* with the empty string that stands for "no link fingerprint".
Md5Hex12(s) ==
    <<"md5", ByteSum(s) % HashSpace>>

title_fingerprint(t) ==
    Md5Hex12(normalize_title(t))

--------------------------------------------------------------------------
(*                          Bounded input titles                           *)

\* The longest generated title.
MaxTitleLen == 3

\* The characters generated titles are made of: a lower-case and an
\* upper-case letter, whitespace, punctuation.
TitleChars ==
    {"a", "A", " ", "!"}

RECURSIVE SeqsUpTo(_, _)
SeqsUpTo(S, n) ==
    IF n = 0 THEN {<<>>}
    ELSE LET shorter == SeqsUpTo(S, n - 1)
         IN  shorter \cup {Append(s, c) : s \in shorter, c \in S}

T_GPT5_Launches ==
    <<"G", "P", "T", "-", "5", " ", "L", "a", "u", "n", "c", "h", "e", "s", "!">>

T_gpt_5_launches ==
    <<"g", "p", "t", " ", "5", " ", "l", "a", "u", "n", "c", "h", "e", "s">>

T_gpt5_launches ==
    <<"g", "p", "t", "5", " ", "l", "a", "u", "n", "c", "h", "e", "s">>

T_AI_Model_Released ==
    <<"A", "I", " ", "M", "o", "d", "e", "l", " ", "R", "e", "l", "e", "a", "s", "e", "d">>

T_ai_model_released ==
    <<"a", "i", " ", "m", "o", "d", "e", "l", " ", "r", "e", "l", "e", "a", "s", "e", "d">>

T_AI_MODEL_RELEASED_Bang ==
    <<"A", "I", " ", "M", "O", "D", "E", "L", " ", "R", "E", "L", "E", "A", "S", "E", "D", "!", "!">>

T_EU_AI_Act_Passed ==
    <<"E", "U", " ", "A", "I", " ", "A", "c", "t", " ", "P", "a", "s", "s", "e", "d">>

T_eu_ai_act_passed ==
    <<"e", "u", " ", "a", "i", " ", "a", "c", "t", " ", "p", "a", "s", "s", "e", "d">>

T_GPT_5_underscore ==
    <<"G", "P", "T", "_", "5">>

T_tabbed ==
    <<"A", "I", "\t", " ", "A", "c", "t">>

ExampleTitles ==
    { T_GPT5_Launches, T_gpt_5_launches, T_gpt5_launches,
      T_AI_Model_Released, T_ai_model_released, T_AI_MODEL_RELEASED_Bang,
      T_EU_AI_Act_Passed, T_eu_ai_act_passed, T_GPT_5_underscore, T_tabbed }

Titles ==
    SeqsUpTo(TitleChars, MaxTitleLen) \cup ExampleTitles

NoFp == <<"none">>

--------------------------------------------------------------------------
(*            The parts of the state a specification leaves alone          *)

NormIdle ==
    /\ title = <<>>
    /\ other = <<>>
    /\ npc = "idle"
    /\ norm1 = <<>>
    /\ norm2 = <<>>
    /\ fpA = NoFp
    /\ fpB = NoFp

DedupIdle ==
    /\ articles = <<>>
    /\ historical_fps = {}
    /\ dpc = "idle"
    /\ result = <<>>

\* No index.json in the data directory.
NoIndex ==
    [exists |-> FALSE, dates |-> <<>>, latest |-> 0]

RunIdle ==
    /\ pc = "idle"
    /\ runs = 0
    /\ target_date = 0
    /\ api_key = FALSE
    /\ after_dedup_count = 0
    /\ call = 0
    /\ llm_pc = "none"
    /\ attempt = 0
    /\ log = <<>>
    /\ requests = 0
    /\ items = 0
    /\ exit_code = -1
    /\ skip_marker = FALSE
    /\ digests = <<>>
    /\ index = NoIndex
    /\ digests0 = <<>>
    /\ index0 = NoIndex
    /\ prev_success = 0

CollectIdle ==
    /\ cpc = "idle"
    /\ src_i = 0
    /\ url_i = 0
    /\ seen_ids = {}
    /\ newsletter_articles = <<>>
    /\ supplementary_articles = <<>>
    /\ hn_articles = <<>>
    /\ reddit_articles = <<>>
    /\ all_articles = <<>>
    /\ fetch_status = <<>>

GenIdle ==
    /\ gpc = "idle"
    /\ pool_n = 0
    /\ stage1_response = [kind |-> "no array", elems |-> <<>>]
    /\ gen_exc = "none"
    /\ selected_indices = <<>>
    /\ batches = <<>>
    /\ batch_num = 0
    /\ all_items_raw = <<>>
    /\ news_items = <<>>

ReadIdle ==
    /\ ppc = "idle"
    /\ raw = <<>>
    /\ batch_items = [type |-> "none"]
    /\ sent = [items |-> <<>>, cut_in |-> 0]

HistIdle ==
    /\ hpc = "idle"
    /\ data_dir = <<>>
    /\ day_i = 0
    /\ fingerprints = {}

--------------------------------------------------------------------------
(*                 Specification of the pure functions                     *)

InitNormalize ==
    /\ title \in Titles
    /\ other \in Titles
    /\ npc = "input"
    /\ norm1 = <<>>
    /\ norm2 = <<>>
    /\ fpA = NoFp
    /\ fpB = NoFp
    /\ DedupIdle
    /\ ReadIdle
    /\ HistIdle
    /\ RunIdle
    /\ CollectIdle
    /\ GenIdle

\* n = normalize_title(t)
Normalize ==
    /\ npc = "input"
    /\ norm1' = normalize_title(title)
    /\ npc' = "normalized"
    /\ UNCHANGED <<title, other, norm2, fpA, fpB>>
    /\ UNCHANGED notNormVars

\* normalize_title(n), the function applied to its own result
Renormalize ==
    /\ npc = "normalized"
    /\ norm2' = normalize_title(norm1)
    /\ npc' = "renormalized"
    /\ UNCHANGED <<title, other, norm1, fpA, fpB>>
    /\ UNCHANGED notNormVars

\* title_fingerprint of both titles
Fingerprint ==
    /\ npc = "renormalized"
    /\ fpA' = title_fingerprint(title)
    /\ fpB' = title_fingerprint(other)
    /\ npc' = "fingerprinted"
    /\ UNCHANGED <<title, other, norm1, norm2>>
    /\ UNCHANGED notNormVars

NextNormalize ==
    \/ Normalize
    \/ Renormalize
    \/ Fingerprint

SpecNormalize ==
    InitNormalize /\ [][NextNormalize]_vars

--------------------------------------------------------------------------
(*                  Properties of the pure functions                       *)

\* Two titles differ only in letter case and in punctuation characters:
\* they can be read side by side so that every pair of characters is the
\* same letter up to case, or a punctuation character of one title stands
\* against nothing in the other.  With spaceForPunct a punctuation
\* character may also stand where the other title has one whitespace
\* character.
RECURSIVE DifferOnlyInCaseAndPunct(_, _, _)
DifferOnlyInCaseAndPunct(t, u, spaceForPunct) ==
    IF t = <<>> /\ u = <<>> THEN TRUE
    ELSE \/ /\ t # <<>> /\ IsPunct(Head(t))
            /\ \/ DifferOnlyInCaseAndPunct(Tail(t), u, spaceForPunct)
               \/ /\ spaceForPunct /\ u # <<>> /\ IsSpace(Head(u))
                  /\ DifferOnlyInCaseAndPunct(Tail(t), Tail(u), spaceForPunct)
         \/ /\ u # <<>> /\ IsPunct(Head(u))
            /\ \/ DifferOnlyInCaseAndPunct(t, Tail(u), spaceForPunct)
               \/ /\ spaceForPunct /\ t # <<>> /\ IsSpace(Head(t))
                  /\ DifferOnlyInCaseAndPunct(Tail(t), Tail(u), spaceForPunct)
         \/ /\ t # <<>> /\ u # <<>>
            /\ LowerChar(Head(t)) = LowerChar(Head(u))
            /\ DifferOnlyInCaseAndPunct(Tail(t), Tail(u), spaceForPunct)

\* C2 (as claimed): normalize_title is idempotent,
\* normalize_title(normalize_title(t)) = normalize_title(t) for every title.
\* The code strips whitespace before it deletes punctuation, so a title
\* such as "a !" normalizes to "a " and that to "a".
C2_NormalizeIdempotent ==
    npc \in {"renormalized", "fingerprinted"} => norm2 = norm1

--------------------------------------------------------------------------
(*                         deduplicate_articles                            *)

\* Links of the model's articles (never empty: parse_rss keeps an entry
\* only if it has a title and a link, and fetch_hacker_news falls back to
\* the item's page).
L_u1 == <<"u", "1">>

L_u2 == <<"u", "2">>

L_u3 == <<"u", "3">>

DedupLinks ==
    {L_u1, L_u2, L_u3}

DedupTitles ==
    {T_AI_Model_Released, T_ai_model_released, T_AI_MODEL_RELEASED_Bang,
     T_eu_ai_act_passed}

ArticlePool ==
    [title : DedupTitles, link : DedupLinks]

\* The longest input list.
MaxArticles == 3

\* Fingerprints a historical set may hold: the title of an earlier digest
\* item, the URL of one, and one that matches nothing.
HistoryCandidates ==
    {title_fingerprint(T_EU_AI_Act_Passed), Md5Hex12(L_u2), Md5Hex12(<<"z">>)}

\* url_fp = hashlib.md5(a["link"].encode()).hexdigest()[:12] if a["link"] else ""
link_fingerprint(link) ==
    IF link # <<>> THEN Md5Hex12(link) ELSE NoFp

\* A variant that never looks at the historical set.
is_duplicate_in_batch_only(fp, url_fp, seen, hist) ==
    \/ fp \in seen
    \/ url_fp # NoFp /\ url_fp \in seen

\* The two "continue" tests of the loop: the title fingerprint, then the
\* link fingerprint when there is one, against this batch and the history.
is_duplicate(fp, url_fp, seen, hist) ==
    \/ fp \in seen \/ fp \in hist
    \/ url_fp # NoFp /\ (url_fp \in seen \/ url_fp \in hist)

\* The loop of deduplicate_articles from article i on, with the seen set
\* and the result list built so far.
RECURSIVE DedupLoop(_, _, _, _, _)
DedupLoop(as, hist, i, seen, res) ==
    IF i > Len(as) THEN res
    ELSE LET a      == as[i]
             fp     == title_fingerprint(a.title)
             url_fp == link_fingerprint(a.link)
         IN  IF is_duplicate(fp, url_fp, seen, hist)
             THEN DedupLoop(as, hist, i + 1, seen, res)
             ELSE DedupLoop(as, hist, i + 1,
                            seen \cup {fp} \cup (IF url_fp # NoFp THEN {url_fp} ELSE {}),
                            Append(res, a))

deduplicate_articles(as, hist) ==
    DedupLoop(as, hist, 1, {}, <<>>)

InitDedup ==
    /\ articles \in SeqsUpTo(ArticlePool, MaxArticles)
    /\ historical_fps \in SUBSET HistoryCandidates
    /\ dpc = "input"
    /\ result = <<>>
    /\ NormIdle
    /\ ReadIdle
    /\ HistIdle
    /\ RunIdle
    /\ CollectIdle
    /\ GenIdle

\* result = deduplicate_articles(articles, historical_fps)
Deduplicate ==
    /\ dpc = "input"
    /\ result' = deduplicate_articles(articles, historical_fps)
    /\ dpc' = "done"
    /\ UNCHANGED <<articles, historical_fps>>
    /\ UNCHANGED notDedupVars

NextDedup ==
    Deduplicate

SpecDedup ==
    InitDedup /\ [][NextDedup]_vars

\* The title with its letters lower-cased and its trailing punctuation
\* removed.
RECURSIVE DropTrailingPunct(_)
DropTrailingPunct(s) ==
    IF s # <<>> /\ IsPunct(s[Len(s)])
    THEN DropTrailingPunct(SubSeq(s, 1, Len(s) - 1))
    ELSE s

SameUpToCaseAndTrailingPunct(t, u) ==
    DropTrailingPunct(Lower(t)) = DropTrailingPunct(Lower(u))

ThreeSpellings ==
    << [title |-> T_AI_Model_Released, link |-> L_u1],
       [title |-> T_ai_model_released, link |-> L_u2],
       [title |-> T_AI_MODEL_RELEASED_Bang, link |-> L_u3] >>

--------------------------------------------------------------------------
(*                                call_llm                                 *)

\* What one HTTP attempt of call_llm can meet.
Outcome(kind, code) ==
    [kind |-> kind, code |-> code]

\* Status codes of the HTTPError answers the model lets the endpoint give.
HttpErrorCodes ==
    {400, 429, 501, 503}

AttemptOutcomes ==
    {Outcome("content", 200),     \* choices[0].message.content is non-empty
     Outcome("empty", 200),       \* the answer parses but carries no content
     Outcome("badbody", 200),     \* json.loads or result["choices"][0] fails
     Outcome("urlerror", 0),      \* URLError
     Outcome("timeout", 0)}       \* TimeoutError
    \cup {Outcome("http", c) : c \in HttpErrorCodes}

\* A variant that sleeps and retries after every HTTPError.
is_retryable_status_any(code) ==
    TRUE

\* e.code in (429, 500, 502, 503, 504)
is_retryable_status(code) ==
    code \in {429, 500, 502, 503, 504}

\* The except clauses that end in "continue".
continues_after(o) ==
    \/ o.kind = "http" /\ is_retryable_status(o.code)
    \/ o.kind \in {"urlerror", "timeout"}

\* for attempt in range(3)
LlmAttempts == 3

\* if after_dedup_count < 5
MinArticles == 5

\* A variant that never misses the credential.
has_api_key_unchecked(key) ==
    TRUE

\* api_key = os.environ.get("OPENAI_API_KEY", ""); if not api_key: raise
has_api_key(key) ==
    key

\* call_llm's own state: where it is, its loop variable, and the outcomes
\* of the attempts it has made.
LlmState(at, n, outcomes) ==
    [llm_pc |-> at, attempt |-> n, log |-> outcomes]

\* Entry: without a credential RuntimeError is raised before any request.
llm_enter(key) ==
    LlmState(IF has_api_key(key) THEN "loop" ELSE "raised", 0, <<>>)

\* One pass through the loop body, the request being answered with o.
\* Content returns; an HTTPError with a retryable status, a URLError or a
\* TimeoutError sleeps and continues, and after the last pass the loop is
\* left and last_error raised; everything else raises at once.
llm_attempt(st, o) ==
    LlmState(IF o.kind = "content" THEN "returned"
             ELSE IF continues_after(o) /\ st.attempt + 1 < LlmAttempts THEN "loop"
             ELSE "raised",
             st.attempt + 1,
             Append(st.log, o))

\* The whole call against an endpoint that answers the i-th request with
\* script[i].
RECURSIVE llm_run(_, _)
llm_run(st, script) ==
    IF st.llm_pc # "loop" THEN st
    ELSE llm_run(llm_attempt(st, script[st.attempt + 1]), script)

call_llm(key, script) ==
    llm_run(llm_enter(key), script)

\* What the endpoint answers to the first, second and third request.
Scripts ==
    [1..LlmAttempts -> AttemptOutcomes]

\* How a call can end, with and without the credential: returned or raised,
\* and after how many requests.
CallEndings ==
    [key \in BOOLEAN |->
        {[llm_pc |-> st.llm_pc, attempt |-> st.attempt] :
            st \in {call_llm(key, script) : script \in Scripts}}]

InitLlm ==
    /\ pc = "call"
    /\ runs = 1
    /\ target_date = 1
    /\ api_key \in BOOLEAN
    /\ after_dedup_count = MinArticles
    /\ call = 1
    /\ llm_pc = "enter"
    /\ attempt = 0
    /\ log = <<>>
    /\ requests = 0
    /\ items = 0
    /\ exit_code = -1
    /\ skip_marker = FALSE
    /\ digests = <<>>
    /\ index = NoIndex
    /\ digests0 = <<>>
    /\ index0 = NoIndex
    /\ prev_success = 0
    /\ NormIdle
    /\ ReadIdle
    /\ HistIdle
    /\ DedupIdle
    /\ CollectIdle
    /\ GenIdle

\* call_llm is entered.
LlmCheckKey ==
    /\ pc = "call"
    /\ llm_pc = "enter"
    /\ LET st == llm_enter(api_key)
       IN  /\ llm_pc' = st.llm_pc
           /\ attempt' = st.attempt
           /\ log' = st.log
    /\ UNCHANGED <<pc, runs, envVars, after_dedup_count, call, requests, items,
                   exit_code, skip_marker, storeVars, digests0, index0, prev_success>>
    /\ UNCHANGED notRunVars

\* One request is sent and answered with o.
LlmAttempt(o) ==
    /\ pc = "call"
    /\ llm_pc = "loop"
    /\ LET st == llm_attempt(LlmState(llm_pc, attempt, log), o)
       IN  /\ llm_pc' = st.llm_pc
           /\ attempt' = st.attempt
           /\ log' = st.log
    /\ requests' = requests + 1
    /\ UNCHANGED <<pc, runs, envVars, after_dedup_count, call, items,
                   exit_code, skip_marker, storeVars, digests0, index0, prev_success>>
    /\ UNCHANGED notRunVars

NextLlm ==
    \/ LlmCheckKey
    \/ \E o \in AttemptOutcomes : LlmAttempt(o)

SpecLlm ==
    InitLlm /\ [][NextLlm]_vars

--------------------------------------------------------------------------
(*                                 main                                    *)

\* index["dates"][:30]
IndexCap == 30

\* The lengths of the history the data directory starts with: none, or
\* one successful run a day for HistoryLength days (days 2, 3, ...).
HistoryLengths ==
    {0, IndexCap}

\* The target dates later than every day of the history.
NumNewDates == 1

\* The days a run can have as its target date (TARGET_DATE or today): a
\* day before the history, its first day, and days after it.
RunDates ==
    {1, 2} \cup ((IndexCap + 2)..(IndexCap + 1 + NumNewDates))

\* The most runs against one data directory.
MaxRuns == 2

\* How many articles survive dedup: none, one fewer than the threshold,
\* just enough.
AfterDedupCounts ==
    {0, MinArticles - 1, MinArticles}

\* How many items one Stage-2 batch yields.
BatchYields ==
    {0, 1}

\* A variant with the threshold one lower.
too_few_articles_off_by_one(n) ==
    n < MinArticles - 1

too_few_articles(n) ==
    n < MinArticles

\* list.sort(reverse=True): the element at position j goes to the position
\* given by the number of greater elements and of equal elements before it.
RankDesc(s, j) ==
    1 + Cardinality({k \in 1..Len(s) : s[k] > s[j] \/ (s[k] = s[j] /\ k < j)})

SortDesc(s) ==
    LET rank == [j \in 1..Len(s) |-> RankDesc(s, j)]
    IN  [i \in 1..Len(s) |-> s[CHOOSE j \in 1..Len(s) : rank[j] = i]]

FirstN(s, n) ==
    SubSeq(s, 1, IF Len(s) < n THEN Len(s) ELSE n)

\* A variant that appends the date without looking for it.
updated_index_always_appends(ix, d) ==
    LET dates == FirstN(SortDesc(Append(ix.dates, d)), IndexCap)
    IN  [exists |-> TRUE, dates |-> dates, latest |-> dates[1]]

\* The index update of main: load index.json or start empty, add the date
\* if it is not listed and sort descending, keep the first 30, set latest.
updated_index(ix, d) ==
    LET loaded == IF ix.exists THEN ix.dates ELSE <<>>
        added  == IF d \in Range(loaded) THEN loaded
                  ELSE SortDesc(Append(loaded, d))
        dates  == FirstN(added, IndexCap)
    IN  [exists |-> TRUE, dates |-> dates, latest |-> dates[1]]

\* The digest written for a run: its date, the number of stories, and the
\* run that wrote it (crawlLog.fetchedAt differs from run to run).
Digest(d, n, r) ==
    [date |-> d, finalStories |-> n, fetchedAt |-> r]

\* The index after one successful run a day on days day .. last, starting
\* from the index ix; PriorIndex(k) is the index after k such runs.
RECURSIVE IndexAfterRuns(_, _, _)
IndexAfterRuns(ix, day, last) ==
    IF day > last THEN ix
    ELSE LET next == updated_index(ix, day)
         IN  IF next.exists THEN IndexAfterRuns(next, day + 1, last) ELSE ix

PriorIndex(k) ==
    IndexAfterRuns(NoIndex, 2, k + 1)

\* The digest files those runs wrote.
PriorDigests(k) ==
    [d \in 2..(k + 1) |-> Digest(d, 1, 0)]

\* No run is in progress; the data directory is empty or holds what
\* earlier successful runs left.
InitRun ==
    /\ pc = "ready"
    /\ runs = 0
    /\ target_date = 0
    /\ api_key = FALSE
    /\ after_dedup_count = 0
    /\ call = 0
    /\ llm_pc = "none"
    /\ attempt = 0
    /\ log = <<>>
    /\ requests = 0
    /\ items = 0
    /\ exit_code = -1
    /\ skip_marker = FALSE
    /\ \E k \in HistoryLengths :
           /\ digests = PriorDigests(k)
           /\ index = PriorIndex(k)
           /\ prev_success = IF k = 0 THEN 0 ELSE k + 1
    /\ digests0 = digests
    /\ index0 = index
    /\ NormIdle
    /\ ReadIdle
    /\ HistIdle
    /\ DedupIdle
    /\ CollectIdle
    /\ GenIdle

\* A run starts: the scheduler sets the environment.
StartRun(d, key) ==
    /\ pc \in {"ready", "exited"}
    /\ runs < MaxRuns
    /\ runs' = runs + 1
    /\ target_date' = d
    /\ api_key' = key
    /\ pc' = "collect"
    /\ after_dedup_count' = 0
    /\ call' = 0
    /\ llm_pc' = "none"
    /\ attempt' = 0
    /\ log' = <<>>
    /\ requests' = 0
    /\ items' = 0
    /\ exit_code' = -1
    /\ skip_marker' = FALSE
    /\ digests0' = digests
    /\ index0' = index
    /\ prev_success' = IF pc = "exited" /\ exit_code = 0 /\ ~skip_marker
                       THEN target_date
                       ELSE prev_success
    /\ UNCHANGED storeVars
    /\ UNCHANGED notRunVars

\* Steps 1 to 3 of main: collect, filter, load the history, deduplicate.
\* They read the data directory and leave n articles.
CollectFilterDedup(n) ==
    /\ pc = "collect"
    /\ after_dedup_count' = n
    /\ pc' = "deduped"
    /\ UNCHANGED <<runs, envVars, llmVars, items, exit_code, skip_marker,
                   storeVars, digests0, index0, prev_success>>
    /\ UNCHANGED notRunVars

\* if after_dedup_count < 5: print("SKIP_UPDATE=true"); sys.exit(0)
\* otherwise generate_digest is entered and makes its first call_llm.
CheckEnough ==
    /\ pc = "deduped"
    /\ IF too_few_articles(after_dedup_count)
       THEN /\ skip_marker' = TRUE
            /\ exit_code' = 0
            /\ pc' = "exited"
            /\ UNCHANGED <<call, llm_pc>>
       ELSE /\ pc' = "call"
            /\ call' = 1
            /\ llm_pc' = "enter"
            /\ UNCHANGED <<skip_marker, exit_code>>
    /\ UNCHANGED <<runs, envVars, after_dedup_count, attempt, log, requests,
                   items, storeVars, digests0, index0, prev_success>>
    /\ UNCHANGED notRunVars

\* A call_llm of generate_digest, from entry to return or raise, ending in
\* one of the ways call_llm can end against some endpoint.  (The attempts
\* one by one, with their outcomes logged, are SpecLlm's.)
CallLlm(st) ==
    /\ pc = "call"
    /\ llm_pc = "enter"
    /\ st \in CallEndings[api_key]
    /\ llm_pc' = st.llm_pc
    /\ requests' = requests + st.attempt
    /\ UNCHANGED <<pc, runs, envVars, after_dedup_count, call, attempt, log, items,
                   exit_code, skip_marker, storeVars, digests0, index0, prev_success>>
    /\ UNCHANGED notRunVars

\* Stage 1 returned: the selection is made and the first batch's call begins.
AfterStage1 ==
    /\ pc = "call"
    /\ call = 1
    /\ llm_pc = "returned"
    /\ call' = 2
    /\ llm_pc' = "enter"
    /\ UNCHANGED <<pc, runs, envVars, after_dedup_count, attempt, log, requests,
                   items, exit_code, skip_marker, storeVars, digests0, index0, prev_success>>
    /\ UNCHANGED notRunVars

\* A Stage-2 call returned: its answer is parsed (or recovered, or dropped)
\* into k items, which are added to all_items_raw.
AfterBatch(k) ==
    /\ pc = "call"
    /\ call \in {2, 3}
    /\ llm_pc = "returned"
    /\ items' = items + k
    /\ IF call = 2
       THEN /\ call' = 3
            /\ llm_pc' = "enter"
            /\ pc' = pc
       ELSE /\ call' = call
            /\ llm_pc' = "none"
            /\ pc' = "generated"
    /\ UNCHANGED <<runs, envVars, after_dedup_count, attempt, log, requests,
                   exit_code, skip_marker, storeVars, digests0, index0, prev_success>>
    /\ UNCHANGED notRunVars

\* call_llm raised inside generate_digest, which catches nothing:
\* except Exception in main logs and exits with status 1.
GenerationFailed ==
    /\ pc = "call"
    /\ llm_pc = "raised"
    /\ exit_code' = 1
    /\ pc' = "exited"
    /\ UNCHANGED <<runs, envVars, after_dedup_count, llmVars, items,
                   skip_marker, storeVars, digests0, index0, prev_success>>
    /\ UNCHANGED notRunVars

\* if not news_items: sys.exit(1)
CheckItems ==
    /\ pc = "generated"
    /\ IF items = 0
       THEN /\ exit_code' = 1
            /\ pc' = "exited"
       ELSE /\ pc' = "assembled"
            /\ UNCHANGED exit_code
    /\ UNCHANGED <<runs, envVars, after_dedup_count, llmVars, items,
                   skip_marker, storeVars, digests0, index0, prev_success>>
    /\ UNCHANGED notRunVars

\* with open(output_path, "w") as f: json.dump(digest, f)
WriteDigest ==
    /\ pc = "assembled"
    /\ digests' = (target_date :> Digest(target_date, items, runs)) @@ digests
    /\ pc' = "written"
    /\ UNCHANGED <<runs, envVars, after_dedup_count, llmVars, items, exit_code,
                   skip_marker, index, digests0, index0, prev_success>>
    /\ UNCHANGED notRunVars

\* The index is updated and written, and main returns.
UpdateIndex ==
    /\ pc = "written"
    /\ index' = updated_index(index, target_date)
    /\ exit_code' = 0
    /\ pc' = "exited"
    /\ UNCHANGED <<runs, envVars, after_dedup_count, llmVars, items,
                   skip_marker, digests, digests0, index0, prev_success>>
    /\ UNCHANGED notRunVars

Next ==
    \/ \E d \in RunDates, key \in BOOLEAN : StartRun(d, key)
    \/ \E n \in AfterDedupCounts : CollectFilterDedup(n)
    \/ CheckEnough
    \/ \E st \in CallEndings[api_key] : CallLlm(st)
    \/ AfterStage1
    \/ \E k \in BatchYields : AfterBatch(k)
    \/ GenerationFailed
    \/ CheckItems
    \/ WriteDigest
    \/ UpdateIndex

Spec ==
    InitRun /\ [][Next]_vars

\* Once deduplicate_articles has returned, main goes on to the threshold
\* check: the code between them is straight-line and does not block.
FairSpec ==
    Spec /\ WF_vars(CheckEnough)

--------------------------------------------------------------------------
(*                     Properties of call_llm and main                     *)

\* The conditions the retry policy names: HTTP 429/500/502/503/504, a
\* network error, a timeout.
RetryableCondition(o) ==
    \/ o.kind = "http" /\ o.code \in {429, 500, 502, 503, 504}
    \/ o.kind \in {"urlerror", "timeout"}

\* C8: one call_llm makes at most 3 HTTP attempts; every attempt that is
\* followed by another one met a retryable condition; and an attempt that
\* met anything else but content (a non-retryable HTTP status, an answer
\* without content) is the last: the call has raised.
C8_RetryPolicy ==
    /\ Len(log) <= 3
    /\ requests = Len(log)
    /\ \A i \in 1..(Len(log) - 1) : RetryableCondition(log[i])
    /\ \A i \in 1..Len(log) :
           (~RetryableCondition(log[i]) /\ log[i].kind # "content")
               => (i = Len(log) /\ llm_pc = "raised")

\* C8 witness: a 429 was retried and the 400 that followed ended the call.
C8_Witness ==
    /\ log = <<Outcome("http", 429), Outcome("http", 400)>>
    /\ llm_pc = "raised"

StoreUntouched ==
    /\ digests = digests0
    /\ index = index0

\* C7 (as claimed): a run without the credential ends with exit status 1,
\* having sent no request and written neither a digest nor the index.
C7_Original_AlwaysFatal ==
    (pc = "exited" /\ ~api_key) =>
        /\ exit_code = 1
        /\ requests = 0
        /\ StoreUntouched

\* C7 (amended): a run without the credential sends no request and writes
\* neither a digest nor the index; it ends with exit status 1 when at least
\* 5 articles survive dedup, and with the skip (status 0) otherwise.
C7_NoCredential ==
    (pc # "ready" /\ ~api_key) =>
        /\ requests = 0
        /\ StoreUntouched
        /\ pc = "exited" =>
               /\ after_dedup_count >= 5 => (exit_code = 1 /\ ~skip_marker)
               /\ after_dedup_count < 5 => (exit_code = 0 /\ skip_marker)

\* C7 witness: a second run, against a data directory that holds a digest
\* and an index, had 5 articles and no credential and exited with status 1.
C7_Witness ==
    /\ pc = "exited"
    /\ ~api_key
    /\ after_dedup_count = 5
    /\ exit_code = 1
    /\ index.exists
    /\ DOMAIN digests # {}

\* The Skipped terminal state of run r.
Skipped(r) ==
    /\ runs = r
    /\ pc = "exited"
    /\ skip_marker
    /\ exit_code = 0
    /\ requests = 0
    /\ StoreUntouched

\* C6: whenever fewer than 5 articles remain after dedup, the run reaches
\* the Skipped terminal state: status 0, no digest written, the index not
\* modified, no LLM request issued.
C6_SkipReached ==
    \A r \in 1..MaxRuns :
        [](( runs = r /\ pc = "deduped" /\ after_dedup_count < 5 ) => <>Skipped(r))

\* C6 witness: a second run, against a data directory that holds a digest
\* and an index, was left with 4 articles and skipped.
C6_Witness ==
    /\ Skipped(2)
    /\ after_dedup_count = 4
    /\ index.exists
    /\ DOMAIN digests # {}


\* The run has ended successfully: digest and index written, status 0.
Successful ==
    /\ pc = "exited"
    /\ exit_code = 0
    /\ ~skip_marker

Count(s, x) ==
    Cardinality({i \in 1..Len(s) : s[i] = x})

\* Sorted descending with no duplicates, at most 30 dates, latest first.
IndexWellFormed ==
    /\ index.exists
    /\ Len(index.dates) >= 1
    /\ Len(index.dates) <= 30
    /\ \A i \in 1..(Len(index.dates) - 1) : index.dates[i] > index.dates[i + 1]
    /\ index.latest = index.dates[1]

\* A run for the date of the last successful run leaves the index as it was.
RerunLeavesIndex ==
    prev_success = target_date => index = index0

\* The index the run started from held 30 dates, all later than D.
FullOfLaterDates ==
    /\ index0.exists
    /\ Len(index0.dates) = 30
    /\ \A i \in 1..Len(index0.dates) : index0.dates[i] > target_date

\* C10 (as claimed): after every successful run for D the index lists D
\* exactly once, is sorted descending without duplicates, has at most 30
\* dates, latest is its first date, and a rerun for D leaves it unchanged.
C10_Original_ListsDate ==
    Successful =>
        /\ Count(index.dates, target_date) = 1
        /\ IndexWellFormed
        /\ RerunLeavesIndex

\* C10 (amended): after every successful run for D the index is sorted
\* descending without duplicates, has at most 30 dates, latest is its first
\* date, and a rerun for D leaves it unchanged; it lists D exactly once,
\* unless it already held 30 dates all later than D: then D is not listed
\* and the index is unchanged.
C10_IndexAfterRun ==
    Successful =>
        /\ IndexWellFormed
        /\ RerunLeavesIndex
        /\ IF FullOfLaterDates
           THEN Count(index.dates, target_date) = 0 /\ index = index0
           ELSE Count(index.dates, target_date) = 1

\* C10 witness: a new date was run twice against a full index; the index
\* lists it first, once, and has dropped the oldest date.
C10_Witness ==
    /\ Successful
    /\ runs = 2
    /\ prev_success = target_date
    /\ target_date = IndexCap + 2
    /\ Len(index.dates) = 30
    /\ index.latest = target_date
    /\ Count(index.dates, 2) = 0


--------------------------------------------------------------------------
(*                    Step 1 of main: the four fetchers                    *)

\* NEWSLETTER_FEEDS, SUPPLEMENTARY_FEEDS, the queries of fetch_hacker_news
\* and the subreddits of main, each cut down to its first entries.
NEWSLETTER_FEEDS ==
    << [name |-> "AlphaSignal",
        urls |-> <<"alphasignal.ai/feed", "alphasignalai.beehiiv.com/feed">>],
       [name |-> "Import AI",
        urls |-> <<"importai.substack.com/feed", "jack-clark.net/feed/">>] >>

SUPPLEMENTARY_FEEDS ==
    << [name |-> "TechCrunch AI", url |-> "techcrunch.com/tag/artificial-intelligence/feed/"],
       [name |-> "The Verge AI", url |-> "theverge.com/rss/ai-artificial-intelligence/index.xml"] >>

HN_QUERIES ==
    <<"AI", "LLM">>

SUBREDDITS ==
    <<"MachineLearning", "LocalLLaMA">>

\* The URL fetch_hacker_news / fetch_reddit builds for a query / subreddit.
HnUrl(query) ==
    [api |-> "hn.algolia.com/api/v1/search", query |-> query]

RedditUrl(subreddit) ==
    [api |-> "reddit.com/r/hot/.rss", query |-> subreddit]

FeedUrl(url) ==
    [api |-> "feed", query |-> url]

Endpoints ==
    {FeedUrl(NEWSLETTER_FEEDS[i].urls[j]) :
         i \in 1..Len(NEWSLETTER_FEEDS), j \in 1..2}
    \cup {FeedUrl(SUPPLEMENTARY_FEEDS[i].url) : i \in 1..Len(SUPPLEMENTARY_FEEDS)}
    \cup {HnUrl(HN_QUERIES[i]) : i \in 1..Len(HN_QUERIES)}
    \cup {RedditUrl(SUBREDDITS[i]) : i \in 1..Len(SUBREDDITS)}

\* max_per_source=10, max_per_source=5, max_items=15, max_items=10, points < 20
NewsletterMaxPerSource == 10

SupplementaryMaxPerSource == 5

HnMaxItems == 15

RedditMaxItems == 10

HnMinPoints == 20

\* for attempt in range(3) of http_get
HttpGetAttempts == 3

\* What one urlopen / resp.read() of http_get does: it returns the body, or
\* raises one of the exceptions http_get retries, or another exception
\* (a connection reset while reading is an OSError).
UrlopenOutcomes ==
    {"body", "URLError", "HTTPError", "TimeoutError", "OSError"}

http_get_retries(exc) ==
    exc \in {"URLError", "HTTPError", "TimeoutError"}

\* http_get from attempt number n (0, 1, 2) on, against an endpoint that
\* behaves as script says: the exception raised, or "none".
RECURSIVE http_get_from(_, _)
http_get_from(n, script) ==
    LET o == script[n + 1]
    IN  IF o = "body" THEN "none"
        ELSE IF http_get_retries(o) /\ n < HttpGetAttempts - 1
             THEN http_get_from(n + 1, script)
             ELSE o

http_get(script) ==
    http_get_from(0, script)

\* The ways a fetch can go: http_get raises exc (after its retries), or it
\* returns what the endpoint serves, or it returns a body that is neither
\* XML nor JSON.
FetchResults ==
    {[exc |-> http_get(script), body |-> b] :
         script \in [1..HttpGetAttempts -> UrlopenOutcomes],
         b \in {"served", "garbage"}}

Failed(r) ==
    r.exc # "none" \/ r.body = "garbage"


\* An article dict: title, link, source, rss_source, hn_points (0 when the
\* code sets none).
Article(t, l, source, rss_source, points) ==
    [title |-> t, link |-> l, source |-> source, rss_source |-> rss_source,
     hn_points |-> points]

\* What the endpoints serve during the run: for a feed the <item>s with
\* their title and link, for the search API the hits.
FeedItem(t, l) ==
    [title |-> t, link |-> l]

Hit(id, points, t, url) ==
    [objectID |-> id, points |-> points, title |-> t, url |-> url]

ServedFeeds ==
    [e \in {x \in Endpoints : x.api # "hn.algolia.com/api/v1/search"} |->
        CASE e.query = "alphasignal.ai/feed" ->
                 <<FeedItem("AlphaSignal: frontier models", "alphasignal.ai/p/1"),
                   FeedItem("", "alphasignal.ai/p/2")>>
          [] e.query = "alphasignalai.beehiiv.com/feed" ->
                 <<FeedItem("AlphaSignal: frontier models", "alphasignalai.beehiiv.com/p/1")>>
          [] e.query = "importai.substack.com/feed" -> <<>>
          [] e.query = "jack-clark.net/feed/" ->
                 <<FeedItem("Import AI 400", "jack-clark.net/400")>>
          [] e.query = "techcrunch.com/tag/artificial-intelligence/feed/" ->
                 <<FeedItem("AI startup raises", "techcrunch.com/1"),
                   FeedItem("No link", "")>>
          [] e.query = "theverge.com/rss/ai-artificial-intelligence/index.xml" ->
                 <<FeedItem("Chatbot ships", "theverge.com/1")>>
          [] e.query = "MachineLearning" ->
                 <<FeedItem("[R] New paper", "reddit.com/r/MachineLearning/1")>>
          [] e.query = "LocalLLaMA" ->
                 <<FeedItem("Running a 70B model", "reddit.com/r/LocalLLaMA/1")>>]

ServedHits ==
    [e \in {x \in Endpoints : x.api = "hn.algolia.com/api/v1/search"} |->
        CASE e.query = "AI" ->
                 <<Hit("h1", 30, "Show HN: AI tool", "example.com/tool"),
                   Hit("h2", 10, "Ask HN: AI?", "")>>
          [] e.query = "LLM" ->
                 <<Hit("h1", 30, "Show HN: AI tool", "example.com/tool"),
                   Hit("h3", 50, "LLM from scratch", "")>>]

\* f"https://news.ycombinator.com/item?id={obj_id}"
HnItemUrl(id) ==
    CASE id = "h1" -> "news.ycombinator.com/item?id=h1"
      [] id = "h2" -> "news.ycombinator.com/item?id=h2"
      [] id = "h3" -> "news.ycombinator.com/item?id=h3"

\* parse_rss: [] for a body that does not parse, else the items that have
\* a title and a link.
RECURSIVE KeepTitled(_)
KeepTitled(its) ==
    IF its = <<>> THEN <<>>
    ELSE IF Head(its).title # "" /\ Head(its).link # ""
         THEN <<Head(its)>> \o KeepTitled(Tail(its))
         ELSE KeepTitled(Tail(its))

parse_rss(e, r) ==
    IF r.body = "garbage" THEN <<>> ELSE KeepTitled(ServedFeeds[e])

\* for a in articles[:max]: a["source"] = ...  (and rss_source, for Reddit)
Labelled(its, max, source, rss_source) ==
    LET kept == FirstN(its, max)
    IN  [i \in 1..Len(kept) |->
            Article(kept[i].title, kept[i].link, source, rss_source, 0)]

\* except Exception, in each of the four fetchers.
fetcher_catches_transport_only(exc) ==
    exc \in {"URLError", "HTTPError", "TimeoutError"}

fetcher_catches(exc) ==
    exc \in {"URLError", "HTTPError", "TimeoutError", "OSError", "JSONDecodeError"}

\* The state of the collection, as one record.
CollectState ==
    [cpc |-> cpc, src_i |-> src_i, url_i |-> url_i, seen_ids |-> seen_ids,
     newsletter_articles |-> newsletter_articles,
     supplementary_articles |-> supplementary_articles,
     hn_articles |-> hn_articles, reddit_articles |-> reddit_articles,
     all_articles |-> all_articles, fetch_status |-> fetch_status]

StartOfCollection ==
    [cpc |-> "newsletters", src_i |-> 1, url_i |-> 1, seen_ids |-> {},
     newsletter_articles |-> <<>>, supplementary_articles |-> <<>>,
     hn_articles |-> <<>>, reddit_articles |-> <<>>, all_articles |-> <<>>,
     fetch_status |-> [e \in Endpoints |-> "unfetched"]]

Status(r) ==
    IF Failed(r) THEN "failed" ELSE "ok"


\* One iteration of the inner loop of fetch_newsletter_feeds: one feed URL
\* of the current source is fetched and parsed.
newsletter_step(st, r) ==
    LET src     == NEWSLETTER_FEEDS[st.src_i]
        e       == FeedUrl(src.urls[st.url_i])
        parsed  == IF r.exc # "none" THEN <<>> ELSE parse_rss(e, r)
        fetched == parsed # <<>>
        leave   == fetched \/ st.url_i = Len(src.urls)
        last    == st.src_i = Len(NEWSLETTER_FEEDS)
        marked  == [st EXCEPT !.fetch_status[e] = Status(r)]
    IN  IF r.exc # "none" /\ ~fetcher_catches(r.exc)
        THEN [marked EXCEPT !.cpc = "aborted"]
        ELSE [marked EXCEPT
                 !.newsletter_articles =
                     @ \o Labelled(parsed, NewsletterMaxPerSource, src.name, ""),
                 !.src_i = IF leave THEN (IF last THEN 1 ELSE @ + 1) ELSE @,
                 !.url_i = IF leave THEN 1 ELSE @ + 1,
                 !.cpc = IF leave /\ last THEN "supplementary" ELSE @]

\* One iteration of the loop of fetch_supplementary_feeds.
supplementary_step(st, r) ==
    LET src    == SUPPLEMENTARY_FEEDS[st.src_i]
        e      == FeedUrl(src.url)
        parsed == IF r.exc # "none" THEN <<>> ELSE parse_rss(e, r)
        last   == st.src_i = Len(SUPPLEMENTARY_FEEDS)
        marked == [st EXCEPT !.fetch_status[e] = Status(r)]
    IN  IF r.exc # "none" /\ ~fetcher_catches(r.exc)
        THEN [marked EXCEPT !.cpc = "aborted"]
        ELSE [marked EXCEPT
                 !.supplementary_articles =
                     @ \o Labelled(parsed, SupplementaryMaxPerSource, src.name, ""),
                 !.src_i = IF last THEN 1 ELSE @ + 1,
                 !.cpc = IF last THEN "hn" ELSE @]

\* for hit in data.get("hits", []): skip a seen objectID, skip fewer than
\* 20 points, append the article.
RECURSIVE HnHits(_, _, _)
HnHits(hits, seen, arts) ==
    IF hits = <<>> THEN [seen |-> seen, arts |-> arts]
    ELSE LET hit == Head(hits)
         IN  IF hit.objectID \in seen
             THEN HnHits(Tail(hits), seen, arts)
             ELSE IF hit.points < HnMinPoints
                  THEN HnHits(Tail(hits), seen \cup {hit.objectID}, arts)
                  ELSE HnHits(Tail(hits), seen \cup {hit.objectID},
                              Append(arts,
                                     Article(hit.title,
                                             IF hit.url # "" THEN hit.url
                                             ELSE HnItemUrl(hit.objectID),
                                             "Hacker News", "", hit.points)))

\* articles.sort(key=hn_points, reverse=True): a stable sort.
SortByPointsDesc(arts) ==
    LET keys == [j \in 1..Len(arts) |-> arts[j].hn_points]
        rank == [j \in 1..Len(arts) |-> RankDesc(keys, j)]
    IN  [i \in 1..Len(arts) |-> arts[CHOOSE j \in 1..Len(arts) : rank[j] = i]]

\* One iteration of the loop of fetch_hacker_news: one query; after the
\* last one the articles are sorted by points and the top ones returned.
hn_step(st, r) ==
    LET e      == HnUrl(HN_QUERIES[st.src_i])
        exc    == IF r.exc # "none" THEN r.exc
                  ELSE IF r.body = "garbage" THEN "JSONDecodeError" ELSE "none"
        done   == IF exc = "none"
                  THEN HnHits(ServedHits[e], st.seen_ids, st.hn_articles)
                  ELSE [seen |-> st.seen_ids, arts |-> st.hn_articles]
        last   == st.src_i = Len(HN_QUERIES)
        marked == [st EXCEPT !.fetch_status[e] = Status(r)]
    IN  IF exc # "none" /\ ~fetcher_catches(exc)
        THEN [marked EXCEPT !.cpc = "aborted"]
        ELSE [marked EXCEPT
                 !.seen_ids = done.seen,
                 !.hn_articles = IF last
                                 THEN FirstN(SortByPointsDesc(done.arts), HnMaxItems)
                                 ELSE done.arts,
                 !.src_i = IF last THEN 1 ELSE @ + 1,
                 !.cpc = IF last THEN "reddit" ELSE @]

\* f"r/{subreddit}"
RedditTag(subreddit) ==
    CASE subreddit = "MachineLearning" -> "r/MachineLearning"
      [] subreddit = "LocalLLaMA" -> "r/LocalLLaMA"

\* One fetch_reddit of the loop of main.
reddit_step(st, r) ==
    LET sub    == SUBREDDITS[st.src_i]
        e      == RedditUrl(sub)
        parsed == IF r.exc # "none" THEN <<>> ELSE parse_rss(e, r)
        last   == st.src_i = Len(SUBREDDITS)
        marked == [st EXCEPT !.fetch_status[e] = Status(r)]
    IN  IF r.exc # "none" /\ ~fetcher_catches(r.exc)
        THEN [marked EXCEPT !.cpc = "aborted"]
        ELSE [marked EXCEPT
                 !.reddit_articles =
                     @ \o Labelled(parsed, RedditMaxItems, "Reddit", RedditTag(sub)),
                 !.src_i = IF last THEN 1 ELSE @ + 1,
                 !.cpc = IF last THEN "combine" ELSE @]

\* all_articles = newsletter_articles + hn_articles + reddit_articles
\*                + supplementary_articles
combine_step(st) ==
    [st EXCEPT !.all_articles = st.newsletter_articles \o st.hn_articles
                                \o st.reddit_articles \o st.supplementary_articles,
               !.cpc = "done"]

collect_step(st, r) ==
    CASE st.cpc = "newsletters" -> newsletter_step(st, r)
      [] st.cpc = "supplementary" -> supplementary_step(st, r)
      [] st.cpc = "hn" -> hn_step(st, r)
      [] st.cpc = "reddit" -> reddit_step(st, r)
      [] st.cpc = "combine" -> combine_step(st)

InitCollect ==
    /\ cpc = StartOfCollection.cpc
    /\ src_i = StartOfCollection.src_i
    /\ url_i = StartOfCollection.url_i
    /\ seen_ids = StartOfCollection.seen_ids
    /\ newsletter_articles = StartOfCollection.newsletter_articles
    /\ supplementary_articles = StartOfCollection.supplementary_articles
    /\ hn_articles = StartOfCollection.hn_articles
    /\ reddit_articles = StartOfCollection.reddit_articles
    /\ all_articles = StartOfCollection.all_articles
    /\ fetch_status = StartOfCollection.fetch_status
    /\ NormIdle
    /\ ReadIdle
    /\ HistIdle
    /\ DedupIdle
    /\ RunIdle
    /\ GenIdle

Becomes(st) ==
    /\ cpc' = st.cpc
    /\ src_i' = st.src_i
    /\ url_i' = st.url_i
    /\ seen_ids' = st.seen_ids
    /\ newsletter_articles' = st.newsletter_articles
    /\ supplementary_articles' = st.supplementary_articles
    /\ hn_articles' = st.hn_articles
    /\ reddit_articles' = st.reddit_articles
    /\ all_articles' = st.all_articles
    /\ fetch_status' = st.fetch_status
    /\ UNCHANGED notCollectVars

FetchNewsletterUrl(r) ==
    /\ cpc = "newsletters"
    /\ Becomes(newsletter_step(CollectState, r))

FetchSupplementaryFeed(r) ==
    /\ cpc = "supplementary"
    /\ Becomes(supplementary_step(CollectState, r))

SearchHackerNews(r) ==
    /\ cpc = "hn"
    /\ Becomes(hn_step(CollectState, r))

FetchReddit(r) ==
    /\ cpc = "reddit"
    /\ Becomes(reddit_step(CollectState, r))

Combine ==
    /\ cpc = "combine"
    /\ Becomes(combine_step(CollectState))

NextCollect ==
    \/ \E r \in FetchResults : FetchNewsletterUrl(r)
    \/ \E r \in FetchResults : FetchSupplementaryFeed(r)
    \/ \E r \in FetchResults : SearchHackerNews(r)
    \/ \E r \in FetchResults : FetchReddit(r)
    \/ Combine

SpecCollect ==
    InitCollect /\ [][NextCollect]_vars


--------------------------------------------------------------------------
(*                      Properties of the collection                       *)

\* The sources, each with the endpoints it is fetched from and the labels
\* its articles carry.
SourceOf(source, rss_source, endpoints) ==
    [source |-> source, rss_source |-> rss_source, endpoints |-> endpoints]

Sources ==
    {SourceOf(NEWSLETTER_FEEDS[i].name, "",
              {FeedUrl(NEWSLETTER_FEEDS[i].urls[j]) : j \in 1..Len(NEWSLETTER_FEEDS[i].urls)}) :
         i \in 1..Len(NEWSLETTER_FEEDS)}
    \cup {SourceOf(SUPPLEMENTARY_FEEDS[i].name, "", {FeedUrl(SUPPLEMENTARY_FEEDS[i].url)}) :
              i \in 1..Len(SUPPLEMENTARY_FEEDS)}
    \cup {SourceOf("Hacker News", "", {HnUrl(HN_QUERIES[i]) : i \in 1..Len(HN_QUERIES)})}
    \cup {SourceOf("Reddit", RedditTag(SUBREDDITS[i]), {RedditUrl(SUBREDDITS[i])}) :
              i \in 1..Len(SUBREDDITS)}

IsFrom(a, s) ==
    a.source = s.source /\ a.rss_source = s.rss_source

\* The articles of a source in a list, in the order of the list.
RECURSIVE Contribution(_, _)
Contribution(arts, s) ==
    IF arts = <<>> THEN <<>>
    ELSE IF IsFrom(Head(arts), s)
         THEN <<Head(arts)>> \o Contribution(Tail(arts), s)
         ELSE Contribution(Tail(arts), s)

\* The collection in which no fetch fails.
RECURSIVE RunWithoutFailure(_)
RunWithoutFailure(st) ==
    IF st.cpc = "done" THEN st
    ELSE RunWithoutFailure(collect_step(st, [exc |-> "none", body |-> "served"]))

NoFailure ==
    RunWithoutFailure(StartOfCollection)

\* Every fetch of the source failed; no fetch of the source failed.
Failing(s) ==
    \A e \in s.endpoints : fetch_status[e] = "failed"

NonFailing(s) ==
    \A e \in s.endpoints : fetch_status[e] # "failed"

--------------------------------------------------------------------------
(*                            generate_digest                              *)

\* CATEGORIES: the palette, name -> colour.
PaletteNames ==
    {"Models & APIs", "Research & Papers", "Engineering & Tools",
     "Industry & Policy", "Community Picks"}

CATEGORIES ==
    [en \in PaletteNames |->
        CASE en = "Models & APIs" -> [color |-> "#6366f1"]
          [] en = "Research & Papers" -> [color |-> "#ec4899"]
          [] en = "Engineering & Tools" -> [color |-> "#10b981"]
          [] en = "Industry & Policy" -> [color |-> "#8b5cf6"]
          [] en = "Community Picks" -> [color |-> "#f59e0b"]]

\* The largest pool of deduped articles.
MaxPool == 6

\* The longest index array of a Stage-1 answer.
MaxStage1Len == 2

\* if len(selected_indices) < 8 / remaining[:12 - len] / [:12] / min(16, ...)
PadBelow == 8

SelectionCap == 12

FallbackEnd == 16

\* An element of the array json.loads reads from the Stage-1 answer:
\*   "int"    the integer val
\*   "float"  a number with a fractional part, int() of which is val (2.7 -> 2)
\*   "bool"   true (val 1) or false (val 0): isinstance(True, int) holds
\*   "other"  a string, null, an array or an object
\*   "inf"    a number too large for a float (1e999, Infinity)
\*   "nan"    NaN
Elem(kind, val) ==
    [kind |-> kind, val |-> val]

\* What is read from the Stage-1 answer: no [...] in it, a [...] that is
\* not JSON, or an array.
Stage1Answer(kind, elems) ==
    [kind |-> kind, elems |-> elems]

\* The elements tried for a pool of n articles.
Stage1Elems(n) ==
    {Elem("int", 0), Elem("int", 1), Elem("int", 2), Elem("int", n),
     Elem("int", n + 1), Elem("float", 2), Elem("float", n), Elem("bool", 1),
     Elem("other", 0), Elem("inf", 0), Elem("nan", 0)}

\* The article numbers 1, 2, .., n, 1, 2, .. : len of them.
CyclicIndices(len, n) ==
    [i \in 1..len |-> Elem("int", ((i - 1) % n) + 1)]

\* The answers tried for a pool of n articles: every array of up to
\* MaxStage1Len elements, alone or followed by 6, 7, 11 or 13 article numbers.
Stage1Answers(n) ==
    {Stage1Answer("no array", <<>>), Stage1Answer("not json", <<>>)}
    \cup {Stage1Answer("array", e \o CyclicIndices(len, n)) :
              e \in UNION {[1..k -> Stage1Elems(n)] : k \in 0..MaxStage1Len},
              len \in {0, 6, 7, 11, 13}}

\* range(a, b) as a list.
RangeList(a, b) ==
    [i \in 1..(IF b > a THEN b - a ELSE 0) |-> a + i - 1]

Min(a, b) ==
    IF a < b THEN a ELSE b

RECURSIVE Filter(_, _)
Filter(s, keep) ==
    IF s = <<>> THEN <<>>
    ELSE IF Head(s) \in keep THEN <<Head(s)>> \o Filter(Tail(s), keep)
         ELSE Filter(Tail(s), keep)

\* [int(i) for i in selected_indices
\*         if isinstance(i, (int, float)) and 1 <= int(i) <= len(articles)]:
\* the list, or the exception int() raises on the way.
RECURSIVE int_in_range(_, _, _)
int_in_range(elems, n, acc) ==
    IF elems = <<>> THEN [exc |-> "none", sel |-> acc]
    ELSE LET x == Head(elems)
         IN  IF x.kind = "other" THEN int_in_range(Tail(elems), n, acc)
             ELSE IF x.kind = "inf" THEN [exc |-> "OverflowError", sel |-> <<>>]
             ELSE IF x.kind = "nan" THEN [exc |-> "ValueError", sel |-> <<>>]
             ELSE IF 1 <= x.val /\ x.val <= n
                  THEN int_in_range(Tail(elems), n, Append(acc, x.val))
                  ELSE int_in_range(Tail(elems), n, acc)

\* except (json.JSONDecodeError, ValueError)
stage1_catches(exc) ==
    exc \in {"JSONDecodeError", "ValueError"}

\* The indices parsed from the answer (the first 15 articles when there is
\* no array or it does not parse), or the exception that is not caught.
parse_selected(answer, n) ==
    LET fallback == [exc |-> "none", sel |-> RangeList(1, Min(FallbackEnd, n + 1))]
        read     == int_in_range(answer.elems, n, <<>>)
    IN  IF answer.kind = "no array" THEN fallback
        ELSE IF answer.kind = "not json"
             THEN IF stage1_catches("JSONDecodeError") THEN fallback
                  ELSE [exc |-> "JSONDecodeError", sel |-> <<>>]
        ELSE IF read.exc = "none" THEN read
        ELSE IF stage1_catches(read.exc) THEN fallback
        ELSE read

\* The clamp: fewer than 8 indices are padded with the articles not
\* selected, more than 12 are cut.
clamp_selected(sel, n) ==
    IF Len(sel) < PadBelow
    THEN LET remaining == Filter(RangeList(1, n + 1), (1..n) \ Range(sel))
         IN  sel \o FirstN(remaining, SelectionCap - Len(sel))
    ELSE IF Len(sel) > SelectionCap THEN FirstN(sel, SelectionCap)
    ELSE sel

\* mid = len(selected_articles) // 2; batch1, batch2
split_batches(sel) ==
    LET mid == Len(sel) \div 2
    IN  <<SubSeq(sel, 1, mid), SubSeq(sel, mid + 1, Len(sel))>>

\* A field the item does not have.
Absent == "(absent)"

\* An item of a Stage-2 answer: the fields the conversion reads.
Item(category_en, category_color, title_en, url) ==
    [category_en |-> category_en, category_color |-> category_color,
     title_en |-> title_en, sourceUrl |-> url]

ItemPool ==
    {Item(c, col, t, u) :
         c \in {Absent, "Models & APIs", "Robotics"},
         col \in {Absent, "#6366f1", "#000000"},
         t \in {T_GPT5_Launches, T_gpt5_launches, T_EU_AI_Act_Passed},
         u \in {L_u1, L_u2}}

\* An element that is not a JSON object: a string, a number, null, a list.
NotADict ==
    [json_type |-> "not an object"]

\* isinstance(x, dict)
IsDict(x) ==
    "title_en" \in DOMAIN x

\* What json.loads (or the recovery) gets out of a Stage-2 answer:
\*   "list"    a JSON array, of its elements elems
\*   "dict"    a JSON object: extend() iterates its keys, elems
\*   "str"     a JSON string: extend() iterates its characters, elems
\*   "scalar"  a number, true, false or null: not iterable
Loaded(kind, elems) ==
    [kind |-> kind, elems |-> elems]

\* The values tried: nothing parsed or recovered, one item, and the values
\* that parse without being an array of objects.
BatchItems ==
    {Loaded("list", <<>>)}
    \cup {Loaded("list", <<it>>) : it \in ItemPool}
    \cup {Loaded("list", <<NotADict>>), Loaded("dict", <<NotADict>>),
          Loaded("dict", <<>>), Loaded("str", <<NotADict>>),
          Loaded("scalar", <<>>)}

\* item.get(key, default)
Get(value, default) ==
    IF value = Absent THEN default ELSE value

\* One NewsItem of the conversion to the frontend format.
news_item(item, date) ==
    LET cat_en   == Get(item.category_en, "Community Picks")
        cat_info == IF cat_en \in DOMAIN CATEGORIES THEN CATEGORIES[cat_en]
                    ELSE CATEGORIES["Community Picks"]
    IN  [category |-> [en |-> cat_en,
                       color |-> Get(item.category_color, cat_info.color)],
         title |-> [en |-> item.title_en],
         sourceUrl |-> item.sourceUrl,
         date |-> date]


\* The Stage-1 answers tried together with the Stage-2 answers.
GenerateStage1Answers ==
    {Stage1Answer("no array", <<>>),
     Stage1Answer("array", <<Elem("int", 2), Elem("int", 2)>>),
     Stage1Answer("array", <<Elem("inf", 0)>>)}

\* generate_digest is entered with at least 5 articles (main's skip check).
InitGenerate ==
    /\ gpc = "stage1"
    /\ pool_n \in MinArticles..MaxPool
    /\ stage1_response \in GenerateStage1Answers
    /\ gen_exc = "none"
    /\ selected_indices = <<>>
    /\ batches = <<>>
    /\ batch_num = 0
    /\ all_items_raw = <<>>
    /\ news_items = <<>>
    /\ target_date \in RunDates
    /\ pc = "idle"
    /\ runs = 0
    /\ api_key = TRUE
    /\ after_dedup_count = pool_n
    /\ call = 0
    /\ llm_pc = "none"
    /\ attempt = 0
    /\ log = <<>>
    /\ requests = 0
    /\ items = 0
    /\ exit_code = -1
    /\ skip_marker = FALSE
    /\ digests = <<>>
    /\ index = NoIndex
    /\ digests0 = <<>>
    /\ index0 = NoIndex
    /\ prev_success = 0
    /\ NormIdle
    /\ ReadIdle
    /\ HistIdle
    /\ DedupIdle
    /\ CollectIdle

\* Stage 1: the answer is parsed, the selection clamped and split in two;
\* an exception the parsing does not catch leaves generate_digest.
Stage1 ==
    /\ gpc = "stage1"
    /\ LET parsed == parse_selected(stage1_response, pool_n)
       IN  IF parsed.exc # "none"
           THEN /\ gpc' = "raised"
                /\ gen_exc' = parsed.exc
                /\ UNCHANGED <<selected_indices, batches, batch_num>>
           ELSE /\ selected_indices' = clamp_selected(parsed.sel, pool_n)
                /\ gen_exc' = gen_exc
                /\ batches' = split_batches(Filter(selected_indices', 1..pool_n))
                /\ batch_num' = 1
                /\ gpc' = "stage2"
    /\ UNCHANGED <<pool_n, stage1_response, all_items_raw, news_items>>
    /\ UNCHANGED notGenVars

\* One iteration of the Stage-2 loop: an empty batch is skipped, otherwise
\* all_items_raw.extend(batch_items) adds what the answer holds, or raises
\* TypeError on a value that is not iterable.
Stage2Batch(loaded) ==
    /\ gpc = "stage2"
    /\ IF batches[batch_num] # <<>> /\ loaded.kind = "scalar"
       THEN /\ gpc' = "raised"
            /\ gen_exc' = "TypeError"
            /\ UNCHANGED <<batch_num, all_items_raw>>
       ELSE /\ all_items_raw' = IF batches[batch_num] = <<>> THEN all_items_raw
                                ELSE all_items_raw \o loaded.elems
            /\ gen_exc' = gen_exc
            /\ IF batch_num = 1
               THEN batch_num' = 2 /\ gpc' = gpc
               ELSE batch_num' = batch_num /\ gpc' = "convert"
    /\ UNCHANGED <<pool_n, stage1_response, selected_indices, batches, news_items>>
    /\ UNCHANGED notGenVars

\* The exceptions call_llm ends with: RuntimeError (no key, HTTP error, no
\* content) or the last URLError / TimeoutError.
LlmExceptions ==
    {"RuntimeError", "URLError"}

\* call_llm raises in Stage 1 or in a batch: generate_digest catches nothing.
LlmCallRaises(e) ==
    /\ \/ gpc = "stage1"
       \/ gpc = "stage2" /\ batches[batch_num] # <<>>
    /\ gpc' = "raised"
    /\ gen_exc' = e
    /\ UNCHANGED <<pool_n, stage1_response, selected_indices, batches, batch_num, all_items_raw,
                   news_items>>
    /\ UNCHANGED notGenVars

\* The conversion to the frontend format; generate_digest returns, or
\* item.get raises AttributeError on an element that is not an object.
Convert ==
    /\ gpc = "convert"
    /\ IF \A i \in 1..Len(all_items_raw) : IsDict(all_items_raw[i])
       THEN /\ news_items' = [i \in 1..Len(all_items_raw) |->
                                 news_item(all_items_raw[i], target_date)]
            /\ gpc' = "returned"
            /\ gen_exc' = gen_exc
       ELSE /\ gpc' = "raised"
            /\ gen_exc' = "AttributeError"
            /\ news_items' = news_items
    /\ UNCHANGED <<pool_n, stage1_response, selected_indices, batches, batch_num, all_items_raw>>
    /\ UNCHANGED notGenVars

NextGenerate ==
    \/ Stage1
    \/ \E loaded \in BatchItems : Stage2Batch(loaded)
    \/ \E e \in LlmExceptions : LlmCallRaises(e)
    \/ Convert

SpecGenerate ==
    InitGenerate /\ [][NextGenerate]_vars

--------------------------------------------------------------------------
(*                     Properties of generate_digest                       *)

\* C4: every NewsItem generate_digest returns has a palette name as
\* category.en and that name's palette colour as category.color.
C4_CategoryFromPalette ==
    gpc = "returned" =>
        \A i \in 1..Len(news_items) :
            /\ news_items[i].category.en \in PaletteNames
            /\ news_items[i].category.color
                   = CATEGORIES[news_items[i].category.en].color

\* C5: no two NewsItems generate_digest returns share a title fingerprint
\* or a URL fingerprint.
C5_NoSharedFingerprint ==
    gpc = "returned" =>
        \A i, j \in 1..Len(news_items) :
            i < j =>
                /\ title_fingerprint(news_items[i].title.en)
                       # title_fingerprint(news_items[j].title.en)
                /\ link_fingerprint(news_items[i].sourceUrl)
                       # link_fingerprint(news_items[j].sourceUrl)


--------------------------------------------------------------------------
(*                     Properties of the digest files                      *)

\* C11: a digest file, once written, keeps its content: every file that
\* was in the data directory when a run started (written by an earlier
\* run) still has, at every point of the run, the content it had then.
C11_DigestImmutable ==
    \A d \in DOMAIN digests0 :
        d \in DOMAIN digests /\ digests[d] = digests0[d]

---------------------------------------------------------------------------
(*                 Stage 1 alone: the selection of articles                *)

\* The pool sizes tried: the smallest ones, one above the cap of 12 and one
\* above the fallback's 15.
PoolSizes ==
    (MinArticles..MaxPool) \cup {13, 20}

InitSelect ==
    /\ gpc = "stage1"
    /\ pool_n \in PoolSizes
    /\ stage1_response \in Stage1Answers(pool_n)
    /\ gen_exc = "none"
    /\ selected_indices = <<>>
    /\ batches = <<>>
    /\ batch_num = 0
    /\ all_items_raw = <<>>
    /\ news_items = <<>>
    /\ NormIdle
    /\ ReadIdle
    /\ HistIdle
    /\ DedupIdle
    /\ RunIdle
    /\ CollectIdle

SpecSelect ==
    InitSelect /\ [][Stage1]_vars

\* The number a JSON element stands for lies in [1, n]; a fractional number
\* val + f (0 < f < 1) does when 1 <= val and val < n.
InRange(x, n) ==
    \/ x.kind \in {"int", "bool"} /\ 1 <= x.val /\ x.val <= n
    \/ x.kind = "float" /\ 1 <= x.val /\ x.val < n

\* The elements of the array that lie in [1, n], as integers, in the
\* array's order.
RECURSIVE ValidIndices(_, _)
ValidIndices(elems, n) ==
    IF elems = <<>> THEN <<>>
    ELSE IF InRange(Head(elems), n)
         THEN <<Head(elems).val>> \o ValidIndices(Tail(elems), n)
         ELSE ValidIndices(Tail(elems), n)

\* sel is valid followed by the articles valid does not name, in the
\* pool's order, up to 12 entries or the end of the pool.
PaddedFrom(sel, valid, n) ==
    /\ Len(sel) >= Len(valid)
    /\ SubSeq(sel, 1, Len(valid)) = valid
    /\ \A i \in (Len(valid) + 1)..Len(sel) :
           /\ sel[i] \in (1..n) \ Range(valid)
           /\ \A y \in (1..n) \ Range(valid) :
                  y < sel[i] <=> \E j \in (Len(valid) + 1)..(i - 1) : sel[j] = y
    /\ \/ Len(sel) = SelectionCap
       \/ (1..n) \subseteq Range(sel)

\* C12: once Stage 1 has read an array, the selection holds no element
\* outside [1, N], and when fewer than 8 elements of the array lie in
\* [1, N] the selection is those elements, in the array's order, followed
\* by the articles not selected, in the pool's order, until it has 12
\* entries or the pool is exhausted.
C12_IndexSanitation ==
    (gpc # "stage1" /\ stage1_response.kind = "array") =>
        LET valid == ValidIndices(stage1_response.elems, pool_n)
        IN  /\ gpc = "stage2"
            /\ \A i \in 1..Len(selected_indices) :
                   selected_indices[i] \in 1..pool_n
            /\ Len(valid) < PadBelow =>
                   PaddedFrom(selected_indices, valid, pool_n)
            /\ Len(valid) >= PadBelow =>
                   /\ Len(selected_indices) <= Len(valid)
                   /\ selected_indices = SubSeq(valid, 1, Len(selected_indices))

\* C13: whatever the Stage-1 answer is, once it is read there is a
\* selection for Stage 2: it is not empty, has at most 12 entries and names
\* only articles of the pool.
C13_SelectionBounded ==
    gpc # "stage1" =>
        /\ gpc = "stage2"
        /\ Len(selected_indices) \in 1..SelectionCap
        /\ \A i \in 1..Len(selected_indices) : selected_indices[i] \in 1..pool_n

\* C15: a call_llm failure in one Stage-2 batch stays in that batch: the
\* items the other batch produced are kept, so a run in which a Stage-2
\* call raised ends with failure status only when no item was produced.
C15_BatchFailureLocalized ==
    (pc = "exited" /\ llm_pc = "raised" /\ call \in {2, 3} /\ exit_code = 1)
        => items = 0

\* C14: a Stage-2 answer that is not a JSON array of objects is never
\* fatal: the batch adds only objects (those parsed or recovered) or
\* nothing to the item list, and no exception leaves generate_digest
\* because of what an answer holds.
C14_MalformedOutputNotFatal ==
    /\ \A i \in 1..Len(all_items_raw) : IsDict(all_items_raw[i])
    /\ gen_exc \notin {"TypeError", "AttributeError"}

--------------------------------------------------------------------------
(*            generate_digest: reading one Stage-2 answer                  *)

\* JSON values, as json.loads returns them.
JNone ==
    [type |-> "none"]

JNull ==
    [type |-> "null"]

JStr(s) ==
    [type |-> "string", s |-> s]

JNum(digits) ==
    [type |-> "number", digits |-> digits]

JArr(elems) ==
    [type |-> "array", elems |-> elems]

\* members: a list of [key, value]
JObj(members) ==
    [type |-> "object", members |-> members]

Whitespace ==
    {" ", "\t", "\n"}

JsonDigits ==
    {"0", "4"}

RECURSIVE lstrip(_)
lstrip(t) ==
    IF t # <<>> /\ Head(t) \in Whitespace THEN lstrip(Tail(t)) ELSE t

RECURSIVE rstrip(_)
rstrip(t) ==
    IF t # <<>> /\ t[Len(t)] \in Whitespace
    THEN rstrip(SubSeq(t, 1, Len(t) - 1))
    ELSE t

\* str.strip()
strip(t) ==
    rstrip(lstrip(t))

\* str.startswith(prefix)
startswith(t, prefix) ==
    Len(t) >= Len(prefix) /\ SubSeq(t, 1, Len(prefix)) = prefix

endswith(t, suffix) ==
    Len(t) >= Len(suffix)
        /\ SubSeq(t, Len(t) - Len(suffix) + 1, Len(t)) = suffix

\* The backquote character.
Backquote ==
    "backquote"

\* The code fence: three backquotes.
Fence ==
    <<Backquote, Backquote, Backquote>>

\* re.sub(r"^<fence>(?:json)?\s*", "", raw), then
\* re.sub(r"\s*<fence>$", "", raw), on a text that starts with the fence.
strip_fence(t) ==
    LET after_fence == SubSeq(t, Len(Fence) + 1, Len(t))
        after_json  == IF startswith(after_fence, <<"j", "s", "o", "n">>)
                       THEN SubSeq(after_fence, 5, Len(after_fence))
                       ELSE after_fence
        head_gone   == lstrip(after_json)
    IN  IF endswith(head_gone, Fence)
        THEN rstrip(SubSeq(head_gone, 1, Len(head_gone) - Len(Fence)))
        ELSE head_gone

\* The result of reading a value at the head of a text.
ParseFail ==
    [ok |-> FALSE, val |-> JNone, rest |-> <<>>]

Parsed(val, rest) ==
    [ok |-> TRUE, val |-> val, rest |-> rest]

\* The characters of a string up to its closing quote; a control character
\* in a string is an error.
RECURSIVE scan_string(_, _)
scan_string(t, acc) ==
    IF t = <<>> THEN ParseFail
    ELSE IF Head(t) = "\"" THEN Parsed(JStr(acc), Tail(t))
    ELSE IF Head(t) \in {"\t", "\n"} THEN ParseFail
    ELSE scan_string(Tail(t), Append(acc, Head(t)))

RECURSIVE scan_number(_, _)
scan_number(t, acc) ==
    IF t # <<>> /\ Head(t) \in JsonDigits
    THEN scan_number(Tail(t), Append(acc, Head(t)))
    ELSE Parsed(JNum(acc), t)

\* The decoder of json.loads, on the JSON texts made of arrays, objects, strings
\* without escapes, numbers without sign or fraction, and null.
RECURSIVE parse_value(_), parse_elems(_, _), parse_members(_, _)
parse_value(t) ==
    LET u == lstrip(t)
    IN  IF u = <<>> THEN ParseFail
        ELSE IF Head(u) = "[" THEN
            LET v == lstrip(Tail(u))
            IN  IF v # <<>> /\ Head(v) = "]" THEN Parsed(JArr(<<>>), Tail(v))
                ELSE parse_elems(v, <<>>)
        ELSE IF Head(u) = "{" THEN
            LET v == lstrip(Tail(u))
            IN  IF v # <<>> /\ Head(v) = "}" THEN Parsed(JObj(<<>>), Tail(v))
                ELSE parse_members(v, <<>>)
        ELSE IF Head(u) = "\"" THEN scan_string(Tail(u), <<>>)
        ELSE IF Head(u) \in JsonDigits THEN scan_number(u, <<>>)
        ELSE IF startswith(u, <<"n", "u", "l", "l">>)
             THEN Parsed(JNull, SubSeq(u, 5, Len(u)))
        ELSE ParseFail

parse_elems(t, acc) ==
    LET r == parse_value(t)
    IN  IF ~r.ok THEN ParseFail
        ELSE LET u == lstrip(r.rest)
             IN  IF u = <<>> THEN ParseFail
                 ELSE IF Head(u) = "," THEN parse_elems(Tail(u), Append(acc, r.val))
                 ELSE IF Head(u) = "]"
                      THEN Parsed(JArr(Append(acc, r.val)), Tail(u))
                 ELSE ParseFail

parse_members(t, acc) ==
    LET u == lstrip(t)
    IN  IF u = <<>> \/ Head(u) # "\"" THEN ParseFail
        ELSE LET k == scan_string(Tail(u), <<>>)
                 v == lstrip(k.rest)
             IN  IF ~k.ok \/ v = <<>> \/ Head(v) # ":" THEN ParseFail
                 ELSE LET r == parse_value(Tail(v))
                          w == lstrip(r.rest)
                          m == [key |-> k.val.s, value |-> r.val]
                      IN  IF ~r.ok \/ w = <<>> THEN ParseFail
                          ELSE IF Head(w) = ","
                               THEN parse_members(Tail(w), Append(acc, m))
                          ELSE IF Head(w) = "}"
                               THEN Parsed(JObj(Append(acc, m)), Tail(w))
                          ELSE ParseFail

\* json.loads(text): the value, or JSONDecodeError (ok = FALSE); text
\* after the value is an error.
json_loads(t) ==
    LET r == parse_value(t)
    IN  IF r.ok /\ lstrip(r.rest) = <<>> THEN r ELSE ParseFail

\* str.rfind(c): the 0-based index of the last c, -1 when there is none.
rfind(t, c) ==
    LET at == {i \in 1..Len(t) : t[i] = c}
    IN  IF at = {} THEN -1 ELSE (CHOOSE i \in at : \A j \in at : j <= i) - 1

\* raw[:last_brace + 1] + "]", with "[" in front when it does not start
\* with one.
recovered_text(t, last_brace) ==
    LET recovered == Append(SubSeq(t, 1, last_brace + 1), "]")
    IN  IF startswith(lstrip(recovered), <<"[">>) THEN recovered
        ELSE <<"[">> \o recovered

\* The batch_items of one answer: the text is stripped, its fence removed,
\* and parsed; when that fails, it is parsed again up to its last "}";
\* when that fails too, the batch is empty.
parse_batch(answer) ==
    LET stripped == strip(answer)
        text     == IF startswith(stripped, Fence) THEN strip_fence(stripped)
                    ELSE stripped
        first    == json_loads(text)
        last_brace == rfind(text, "}")
        second   == json_loads(recovered_text(text, last_brace))
    IN  IF first.ok THEN first.val
        ELSE IF last_brace > 0 /\ second.ok THEN second.val
        ELSE JArr(<<>>)

\* The text of a JSON value, without whitespace.
RECURSIVE Render(_), RenderElems(_), RenderMembers(_)
Render(v) ==
    IF v.type = "string" THEN <<"\"">> \o v.s \o <<"\"">>
    ELSE IF v.type = "number" THEN v.digits
    ELSE IF v.type = "null" THEN <<"n", "u", "l", "l">>
    ELSE IF v.type = "array" THEN <<"[">> \o RenderElems(v.elems) \o <<"]">>
    ELSE <<"{">> \o RenderMembers(v.members) \o <<"}">>

RenderElems(elems) ==
    IF elems = <<>> THEN <<>>
    ELSE IF Len(elems) = 1 THEN Render(elems[1])
    ELSE Render(elems[1]) \o <<",">> \o RenderElems(Tail(elems))

RenderMembers(members) ==
    IF members = <<>> THEN <<>>
    ELSE LET m == members[1]
             one == Render(JStr(m.key)) \o <<":">> \o Render(m.value)
         IN  IF Len(members) = 1 THEN one
             ELSE one \o <<",">> \o RenderMembers(Tail(members))

\* An item of a Stage-2 answer, reduced to its title.
TextItem(title_en) ==
    JObj(<<[key |-> <<"t">>, value |-> JStr(title_en)]>>)

\* The titles tried: plain ones and ones with a closing brace in them.
TextTitles ==
    {<<"A">>, <<"B">>, <<"}">>, <<"A", "}", "B">>}

MaxAnswerItems == 3

\* The arrays of items an answer is to hold.
AnswerItems ==
    UNION {[1..n -> {TextItem(t) : t \in TextTitles}] : n \in 1..MaxAnswerItems}

\* The position of the opening and of the closing brace of item j in the
\* text of the array.
ItemStart(its, j) ==
    Len(Render(JArr(SubSeq(its, 1, j - 1)))) + (IF j = 1 THEN 0 ELSE 1)

ItemEnd(its, j) ==
    Len(Render(JArr(SubSeq(its, 1, j)))) - 1

\* The item a text cut after cut characters stops in the middle of: its
\* opening brace is in the text and its closing brace is not; 0 when the
\* cut is between items.
CutIn(its, cut) ==
    LET mid == {j \in 1..Len(its) : ItemStart(its, j) <= cut /\ cut < ItemEnd(its, j)}
    IN  IF mid = {} THEN 0 ELSE CHOOSE j \in mid : TRUE

\* What goes around the array in an answer: nothing, whitespace, a fence.
Wrappers ==
    {"plain", "spaced", "fenced"}

Wrap(w, t) ==
    IF w = "fenced" THEN Fence \o <<"j", "s", "o", "n", "\n">> \o t
    ELSE IF w = "spaced" THEN <<" ", "\n">> \o t
    ELSE t

WrapEnd(w) ==
    IF w = "fenced" THEN <<"\n">> \o Fence
    ELSE IF w = "spaced" THEN <<"\n">>
    ELSE <<>>

\* Answers that are no array of items: values of other types, prose, a
\* lone object, nothing.
OtherAnswers ==
    {<<"4", "0">>, <<"n", "u", "l", "l">>, Render(JStr(<<"A">>)),
     Render(JArr(<<JStr(<<"A">>)>>)), Render(TextItem(<<"A">>)),
     Render(TextItem(<<"A">>)) \o <<",">> \o Render(TextItem(<<"B">>)),
     <<"n", "o">>, <<"n", "o", " ", "{", "}">>, <<"}">>, <<>>, <<"[", "]">>,
     <<"[", "]", "]">>, Fence, Fence \o Fence}

InitRead ==
    /\ ppc = "answer"
    /\ \/ \E its \in AnswerItems, w \in Wrappers :
              \E cut \in 0..(Len(Render(JArr(its))) + 1) :
                  LET full == Render(JArr(its))
                  IN  /\ raw = IF cut > Len(full) THEN Wrap(w, full) \o WrapEnd(w)
                               ELSE Wrap(w, SubSeq(full, 1, cut))
                      /\ sent = [items |-> its, cut_in |-> CutIn(its, cut)]
       \/ /\ raw \in OtherAnswers
          /\ sent = [items |-> <<>>, cut_in |-> 0]
    /\ batch_items = JNone
    /\ HistIdle
    /\ NormIdle
    /\ DedupIdle
    /\ RunIdle
    /\ CollectIdle
    /\ GenIdle

\* The answer of one batch is read (lines 658-685).
ReadAnswer ==
    /\ ppc = "answer"
    /\ batch_items' = parse_batch(raw)
    /\ ppc' = "read"
    /\ UNCHANGED <<raw, sent>>
    /\ UNCHANGED notReadVars

SpecRead ==
    InitRead /\ [][ReadAnswer]_vars

\* C16: an answer that is a JSON array of well-formed objects cut off in
\* the middle of item k+1 (k >= 1) is recovered: the batch holds exactly
\* the items 1..k, in order.
C16_TruncationRecovered ==
    (ppc = "read" /\ sent.cut_in >= 2) =>
        batch_items = JArr(SubSeq(sent.items, 1, sent.cut_in - 1))

--------------------------------------------------------------------------
(*                        load_historical_titles                           *)

DEDUP_DAYS == 7

\* A title of a prior news item in the other locale.
T_zh == <<"z", "h">>

\* An item of the news list of a prior digest. kind tells what it is:
\*   "item"          an object whose title is an object and whose fields
\*                   are strings (the empty string when absent)
\*   "not a dict"    a string or a number: item.get raises
\*   "title is str"  the title is a string: .get on it raises
\*   "zh is a number"   title_fingerprint(zh_title) raises
\*   "url is a number"  url.encode() raises
PriorItem(kind, en, zh, url) ==
    [kind |-> kind, en |-> en, zh |-> zh, url |-> url]

PriorItems ==
    {PriorItem("item", T_GPT5_Launches, T_zh, L_u1),
     PriorItem("item", T_EU_AI_Act_Passed, <<>>, <<>>),
     PriorItem("item", <<>>, <<>>, <<>>),
     PriorItem("not a dict", <<>>, <<>>, <<>>),
     PriorItem("title is str", <<>>, <<>>, L_u2),
     PriorItem("zh is a number", T_EU_AI_Act_Passed, <<>>, L_u2),
     PriorItem("url is a number", T_EU_AI_Act_Passed, T_zh, <<>>)}

MaxNewsItems == 2

\* A digest file: text that is not JSON, JSON that is not an object, or a
\* digest with its news list.
PriorFile(kind, news) ==
    [kind |-> kind, news |-> news]

PriorFiles ==
    {PriorFile("invalid json", <<>>), PriorFile("not an object", <<>>)}
    \cup {PriorFile("digest", news) :
              news \in UNION {[1..n -> PriorItems] : n \in 0..MaxNewsItems}}

\* The body of the loop over data.get("news", []) for one item: the
\* fingerprints after it, and whether it raised.
add_item(fps, item) ==
    LET with_en  == IF item.en # <<>> THEN fps \cup {title_fingerprint(item.en)}
                    ELSE fps
        with_zh  == IF item.zh # <<>> THEN with_en \cup {title_fingerprint(item.zh)}
                    ELSE with_en
        with_url == IF item.url # <<>> THEN with_zh \cup {Md5Hex12(item.url)}
                    ELSE with_zh
    IN  IF item.kind \in {"not a dict", "title is str"}
        THEN [raised |-> TRUE, fps |-> fps]
        ELSE IF item.kind = "zh is a number" THEN [raised |-> TRUE, fps |-> with_en]
        ELSE IF item.kind = "url is a number" THEN [raised |-> TRUE, fps |-> with_zh]
        ELSE [raised |-> FALSE, fps |-> with_url]

\* The items of a file are read in order until one raises; the set is
\* not rolled back.
RECURSIVE add_items(_, _)
add_items(fps, news) ==
    IF news = <<>> THEN fps
    ELSE LET r == add_item(fps, Head(news))
         IN  IF r.raised THEN r.fps ELSE add_items(r.fps, Tail(news))

\* One file: try: json.load, the loop over the items; except Exception: pass
add_file(fps, file) ==
    IF file.kind # "digest" THEN fps
    ELSE add_items(fps, file.news)

\* The directories tried: a file of any content and any age from 0 (the
\* digest of today) to DEDUP_DAYS + 1, alone or next to a sound digest.
SoundDigest ==
    PriorFile("digest", <<PriorItem("item", T_gpt5_launches, <<>>, L_u3)>>)

InitHistory ==
    /\ hpc = "loading"
    /\ day_i = 1
    /\ fingerprints = {}
    /\ \E age \in 0..(DEDUP_DAYS + 1), file \in PriorFiles :
           \/ data_dir = (age :> file)
           \/ \E age2 \in (0..(DEDUP_DAYS + 1)) \ {age} :
                  data_dir = (age :> file) @@ (age2 :> SoundDigest)
    /\ NormIdle
    /\ ReadIdle
    /\ DedupIdle
    /\ RunIdle
    /\ CollectIdle
    /\ GenIdle

\* One iteration of for i in range(1, days + 1); after the last one the
\* set is returned.
LoadDay ==
    /\ hpc = "loading"
    /\ fingerprints' = IF day_i \in DOMAIN data_dir
                       THEN add_file(fingerprints, data_dir[day_i])
                       ELSE fingerprints
    /\ IF day_i = DEDUP_DAYS
       THEN hpc' = "loaded" /\ day_i' = day_i
       ELSE hpc' = hpc /\ day_i' = day_i + 1
    /\ UNCHANGED data_dir
    /\ UNCHANGED notHistVars

SpecHistory ==
    InitHistory /\ [][LoadDay]_vars

\* Reading the file fails: it is not JSON, not an object, or one of its
\* items is malformed.
FailsWhileRead(file) ==
    \/ file.kind # "digest"
    \/ \E i \in 1..Len(file.news) : file.news[i].kind # "item"

\* The title-EN, title-ZH and URL fingerprints of the items of a file.
FingerprintsOf(file) ==
    UNION {
        {title_fingerprint(t) : t \in {file.news[i].en, file.news[i].zh} \ {<<>>}}
            \cup {Md5Hex12(u) : u \in {file.news[i].url} \ {<<>>}} :
        i \in 1..Len(file.news)}

\* C17: the set load_historical_titles returns is made of the
\* fingerprints of the items of the digests of the last 7 days that are
\* read without failure; a file that is missing or fails while being read
\* adds nothing to it.
C17_UnreadableContributesNothing ==
    hpc = "loaded" =>
        fingerprints =
            UNION {FingerprintsOf(data_dir[a]) :
                       a \in {b \in DOMAIN data_dir \cap (1..DEDUP_DAYS) :
                                  ~FailsWhileRead(data_dir[b])}}

==========================================================================
